---------------------------- MODULE Spec2Model ----------------------------
(***************************************************************************)
(* Model of src/main.py of the yoga progression system: the pose scorer    *)
(* check_pose_accuracy with its geometry helpers, and the per-frame main   *)
(* loop (smoothing, hold timer, level progression, feedback, keys).        *)
(*                                                                         *)
(* Units.  Python floats are modelled in fixed point:                      *)
(*   - an accuracy or sub-score is an integer number of hundredths of a    *)
(*     percent (100.0 is 10000);                                           *)
(*   - a distance is an integer number of hundredths of a pixel;           *)
(*   - a normalised landmark coordinate is an integer number of            *)
(*     hundredths of the frame (0.50 is 50);                               *)
(*   - a time is an integer number of half seconds (2.5 s is 5).           *)
(* Quotients are rounded down where the float is not exact.                *)
(***************************************************************************)
EXTENDS Integers, Sequences, FiniteSets, TLC

VARIABLES
  pc,                            \* position of the main thread
  current_level,                 \* main.py:550
  pose_correct,                  \* main.py:553
  level_complete,                \* main.py:554
  pose_hold_time,                \* main.py:552
  last_incorrect_feedback_time,  \* main.py:560
  accuracy_history,              \* main.py:580
  DEBUG_METRICS,                 \* main.py:15
  clock,                         \* the last value time.time() returned
  key,                           \* main.py:780, -1 before the first waitKey
  iterations,                    \* loop iterations started
  frame,                         \* what the last frame computed and emitted
  pose_level,                    \* argument of a check_pose_accuracy call
  results,                       \* argument of a check_pose_accuracy call
  ret,                           \* value a check_pose_accuracy call returned
  speech_engine,                 \* main.py:50-54, FALSE for None
  speech_queue,                  \* main.py:49
  speech_thread,                 \* position of _speech_worker (main.py:69)
  worker_text,                   \* main.py:61, the worker's local text
  enqueued,                      \* the texts speak_text put on speech_queue
  spoken,                        \* the texts the engine has spoken
  printed,                       \* the texts speak_text printed instead
  engine_raised                  \* whether the speech engine has raised

vars == <<pc, current_level, pose_correct, level_complete, pose_hold_time,
          last_incorrect_feedback_time, accuracy_history, DEBUG_METRICS,
          clock, key, iterations, frame, pose_level, results, ret,
          speech_engine, speech_queue, speech_thread, worker_text, enqueued,
          spoken, printed, engine_raised>>

(***************************************************************************)
(* Arithmetic                                                              *)
(***************************************************************************)
Abs(x) == IF x < 0 THEN -x ELSE x

Max(a, b) == IF a >= b THEN a ELSE b

Min(a, b) == IF a <= b THEN a ELSE b

\* Python's int() of the quotient n/d, d > 0: truncation toward zero.
Trunc(n, d) == IF n >= 0 THEN n \div d ELSE -((-n) \div d)

\* lo*lo <= n < hi*hi; the largest r with r*r <= n.
RECURSIVE SqrtBisect(_, _, _)
SqrtBisect(n, lo, hi) ==
  IF hi - lo <= 1 THEN lo
  ELSE LET mid == (lo + hi) \div 2
       IN  IF mid * mid <= n THEN SqrtBisect(n, mid, hi)
                             ELSE SqrtBisect(n, lo, mid)

\* math.sqrt, rounded down to an integer.
ISqrt(n) == SqrtBisect(n, 0, 46341)

\* p/q <= r/s for p, r >= 0 and q, s > 0, by continued fractions, so that no
\* product is formed.
RECURSIVE LeqFrac(_, _, _, _)
LeqFrac(p, q, r, s) ==
  LET ip == p \div q
      ir == r \div s
      fp == p % q
      fr == r % s
  IN  IF ip # ir THEN ip < ir
      ELSE IF fp = 0 THEN TRUE
      ELSE IF fr = 0 THEN FALSE
      ELSE LeqFrac(s, fr, q, fp)

\* 10^8 * cos(k degrees)^2 for k = 0..90, at index k+1.
CosSqTable ==
  << 100000000, 99969541, 99878203, 99726095, 99513403, 99240388, 98907380,
     98514786, 98063085, 97552826, 96984631, 96359193, 95677273, 94939702,
     94147380, 93301270, 92402405, 91451879, 90450850, 89400538, 88302222,
     87157241, 85966990, 84732919, 83456530, 82139380, 80783074, 79389263,
     77959645, 76495963, 75000000, 73473578, 71918557, 70336832, 68730330,
     67101007, 65450850, 63781868, 62096095, 60395585, 58682409, 56958655,
     55226423, 53487824, 51744975, 50000000, 48255025, 46512176, 44773577,
     43041345, 41317591, 39604415, 37903905, 36218132, 34549150, 32898993,
     31269670, 29663168, 28081443, 26526422, 25000000, 23504037, 22040355,
     20610737, 19216926, 17860620, 16543470, 15267081, 14033010, 12842759,
     11697778, 10599462, 9549150, 8548121, 7597595, 6698730, 5852620, 5060298,
     4322727, 3640807, 3015369, 2447174, 1936915, 1485214, 1092620, 759612,
     486597, 273905, 121797, 30459, 0 >>

\* n / sqrt(q) <= cos(k degrees), for q > 0 and n*n <= q.
CosAtMost(n, q, k) ==
  IF k <= 90
    THEN n <= 0 \/ LeqFrac(n * n, q, CosSqTable[k + 1], 100000000)
    ELSE n < 0 /\ LeqFrac(CosSqTable[181 - k], 100000000, n * n, q)

\* CosAtMost(n, q, lo) holds and CosAtMost(n, q, hi) does not; the largest
\* k with CosAtMost(n, q, k): the whole degrees of acos(n / sqrt(q)).
RECURSIVE AcosDegrees(_, _, _, _)
AcosDegrees(n, q, lo, hi) ==
  IF hi - lo <= 1 THEN lo
  ELSE LET mid == (lo + hi) \div 2
       IN  IF CosAtMost(n, q, mid) THEN AcosDegrees(n, q, mid, hi)
                                   ELSE AcosDegrees(n, q, lo, mid)

(***************************************************************************)
(* Configuration (main.py:15-47)                                           *)
(***************************************************************************)
ACCURACY_THRESHOLD == 5500

\* 1.08, in hundredths.
SENSITIVITY == 108

SMOOTHING_WINDOW == 4

\* POSE_CONFIG[1]; the branches of levels 2..5 never read their entries.
feet_weight == 5000

shoulder_weight == 2000

arm_weight == 1500

\* Degrees.
arm_tolerance == 40

\* The frame's size in pixels (frame.shape of the captured frame).
width == 32

height == 24

(***************************************************************************)
(* Landmark geometry (main.py:284-301)                                     *)
(***************************************************************************)
\* A landmark list is a sequence of <<x, y>>, landmark p at index p+1.
find_point(landmarks, p) ==
  IF p < Len(landmarks)
    THEN LET landmark == landmarks[p + 1]
         IN  <<Trunc(landmark[1] * width, 100), Trunc(landmark[2] * height, 100)>>
    ELSE <<0, 0>>

\* In hundredths of a pixel, for points in pixels.
euclidian(point1, point2) ==
  ISqrt(((point1[1] - point2[1]) * (point1[1] - point2[1])
         + (point1[2] - point2[2]) * (point1[2] - point2[2])) * 10000)

\* Whole degrees.  sqrt(4*a*b) = 0 raises ZeroDivisionError, caught: 0.
angle_calc(p0, p1, p2) ==
  LET a == (p1[1] - p0[1]) * (p1[1] - p0[1]) + (p1[2] - p0[2]) * (p1[2] - p0[2])
      b == (p1[1] - p2[1]) * (p1[1] - p2[1]) + (p1[2] - p2[2]) * (p1[2] - p2[2])
      c == (p2[1] - p0[1]) * (p2[1] - p0[1]) + (p2[2] - p0[2]) * (p2[2] - p0[2])
  IN  IF 4 * a * b = 0 THEN 0
      ELSE AcosDegrees(a + b - c, 4 * a * b, 0, 181)


(***************************************************************************)
(* Pose scorer (main.py:103-275)                                           *)
(***************************************************************************)
\* Distance between shoulder midpoint and hip midpoint (lines 110-118).  The
\* midpoints are kept doubled, so the distance is sqrt(d2/4).
torso_dist(landmarks) ==
  LET left_shoulder == find_point(landmarks, 11)
      right_shoulder == find_point(landmarks, 12)
      left_hip == find_point(landmarks, 23)
      right_hip == find_point(landmarks, 24)
      dx == (left_shoulder[1] + right_shoulder[1]) - (left_hip[1] + right_hip[1])
      dy == (left_shoulder[2] + right_shoulder[2]) - (left_hip[2] + right_hip[2])
      dist == ISqrt((dx * dx + dy * dy) * 2500)
  IN  IF dist < 100 THEN (Max(height, width) * 100) \div 4 ELSE dist

\* A variant of mountain_accuracy that clamps neither the sub-scores nor the sum.
mountain_accuracy_unclamped(landmarks, torso) ==
  LET left_shoulder == find_point(landmarks, 11)
      right_shoulder == find_point(landmarks, 12)
      left_ankle == find_point(landmarks, 27)
      right_ankle == find_point(landmarks, 28)
      left_wrist == find_point(landmarks, 15)
      right_wrist == find_point(landmarks, 16)
      shoulder_gap == Abs(left_shoulder[1] - right_shoulder[1])
      ankle_gap == Abs(left_ankle[1] - right_ankle[1])
      left_arm_angle == angle_calc(left_wrist, left_shoulder, find_point(landmarks, 13))
      right_arm_angle == angle_calc(right_wrist, right_shoulder, find_point(landmarks, 14))
  IN  (feet_weight - (feet_weight * ankle_gap * 1000) \div (torso * 6))
      + (shoulder_weight - (shoulder_weight * shoulder_gap * 1000) \div (torso * 9))
      + (arm_weight - (arm_weight * Abs(left_arm_angle - 170)) \div arm_tolerance)
      + (arm_weight - (arm_weight * Abs(right_arm_angle - 170)) \div arm_tolerance)

\* Mountain Pose (lines 123-153).
mountain_accuracy(landmarks, torso) ==
  LET left_shoulder == find_point(landmarks, 11)
      right_shoulder == find_point(landmarks, 12)
      left_ankle == find_point(landmarks, 27)
      right_ankle == find_point(landmarks, 28)
      left_wrist == find_point(landmarks, 15)
      right_wrist == find_point(landmarks, 16)
      shoulder_gap == Abs(left_shoulder[1] - right_shoulder[1])
      ankle_gap == Abs(left_ankle[1] - right_ankle[1])
      left_arm_angle == angle_calc(left_wrist, left_shoulder, find_point(landmarks, 13))
      right_arm_angle == angle_calc(right_wrist, right_shoulder, find_point(landmarks, 14))
      feet_score ==
        Max(0, feet_weight - (feet_weight * ankle_gap * 1000) \div (torso * 6))
      shoulder_score ==
        Max(0, shoulder_weight - (shoulder_weight * shoulder_gap * 1000) \div (torso * 9))
      left_arm_score ==
        Max(0, arm_weight - (arm_weight * Abs(left_arm_angle - 170)) \div arm_tolerance)
      right_arm_score ==
        Max(0, arm_weight - (arm_weight * Abs(right_arm_angle - 170)) \div arm_tolerance)
      accuracy == feet_score + shoulder_score + left_arm_score + right_arm_score
  IN  Min(10000, Max(0, accuracy))

\* Tree Pose (lines 155-189).
tree_accuracy(landmarks, torso) ==
  LET left_hip == find_point(landmarks, 23)
      right_hip == find_point(landmarks, 24)
      left_ankle == find_point(landmarks, 27)
      right_ankle == find_point(landmarks, 28)
      hip_ankle_l == euclidian(left_hip, left_ankle)
      hip_ankle_r == euclidian(right_hip, right_ankle)
      left_leg_raised == left_ankle[2] * 10000 < left_hip[2] * 10000 - torso * 35
      right_leg_raised == right_ankle[2] * 10000 < right_hip[2] * 10000 - torso * 35
      leg_accuracy == IF left_leg_raised \/ right_leg_raised THEN 4000 ELSE 0
      balance_diff == IF left_leg_raised THEN hip_ankle_l
                      ELSE IF right_leg_raised THEN hip_ankle_r
                      ELSE Max(hip_ankle_l, hip_ankle_r)
      balance_accuracy ==
        Max(0, 3000 - (3000 * Abs(hip_ankle_l - hip_ankle_r) * 10) \div (torso * 6))
      standing_accuracy ==
        Max(0, 3000 - (3000 * Abs(4 * balance_diff - 3 * torso)) \div (3 * torso))
      accuracy == leg_accuracy + balance_accuracy + standing_accuracy
  IN  Min(10000, Max(0, accuracy))

\* Warrior Pose (lines 191-220).
warrior_accuracy(landmarks, torso) ==
  LET left_hip == find_point(landmarks, 23)
      right_hip == find_point(landmarks, 24)
      left_knee == find_point(landmarks, 25)
      right_knee == find_point(landmarks, 26)
      left_ankle == find_point(landmarks, 27)
      right_ankle == find_point(landmarks, 28)
      left_wrist == find_point(landmarks, 15)
      right_wrist == find_point(landmarks, 16)
      left_shoulder == find_point(landmarks, 11)
      right_shoulder == find_point(landmarks, 12)
      left_leg_angle == angle_calc(left_hip, left_knee, left_ankle)
      right_leg_angle == angle_calc(right_hip, right_knee, right_ankle)
      left_arm_raised == left_wrist[2] * 1000 < left_shoulder[2] * 1000 - torso * 4
      right_arm_raised == right_wrist[2] * 1000 < right_shoulder[2] * 1000 - torso * 4
      leg_bend_accuracy ==
        Max(0, 4000 - (4000 * Abs(Min(left_leg_angle, right_leg_angle) - 90)) \div 90)
      arms_accuracy == IF left_arm_raised \/ right_arm_raised THEN 3000 ELSE 0
      stance_accuracy ==
        IF Abs(left_leg_angle - right_leg_angle) < 50 THEN 3000 ELSE 1000
      accuracy == leg_bend_accuracy + arms_accuracy + stance_accuracy
  IN  Min(10000, Max(0, accuracy))

\* Child's Pose (lines 222-243).  hip_center_y is kept doubled.
child_accuracy(landmarks, torso) ==
  LET nose == find_point(landmarks, 0)
      left_hip == find_point(landmarks, 23)
      right_hip == find_point(landmarks, 24)
      left_knee == find_point(landmarks, 25)
      right_knee == find_point(landmarks, 26)
      hip_center_y2 == left_hip[2] + right_hip[2]
      knees_bent == /\ left_knee[2] * 500 > left_hip[2] * 500 + torso
                    /\ right_knee[2] * 500 > right_hip[2] * 500 + torso
      fold_accuracy ==
        Max(0, 5000 - (5000 * Max(0, hip_center_y2 - 2 * nose[2]) * 1000) \div (torso * 12))
      knee_accuracy ==
        IF knees_bent THEN 5000
        ELSE Max(0, 5000 - (5000 * Abs(left_knee[2] - left_hip[2]) * 1000) \div (torso * 6))
      accuracy == fold_accuracy + knee_accuracy
  IN  Min(10000, Max(0, accuracy))

\* Lotus Pose (lines 245-268).  hip_center_y and shoulder_y are kept doubled.
lotus_accuracy(landmarks, torso) ==
  LET left_hip == find_point(landmarks, 23)
      right_hip == find_point(landmarks, 24)
      nose == find_point(landmarks, 0)
      left_shoulder == find_point(landmarks, 11)
      right_shoulder == find_point(landmarks, 12)
      left_knee == find_point(landmarks, 25)
      right_knee == find_point(landmarks, 26)
      hip_center_y2 == left_hip[2] + right_hip[2]
      shoulder_y2 == left_shoulder[2] + right_shoulder[2]
      upright_accuracy ==
        Max(0, 5000 - (5000 * Abs(2 * nose[2] - hip_center_y2) * 1000) \div (torso * 12))
      spine_accuracy ==
        Max(0, 3000 - (3000 * Abs(shoulder_y2 - 2 * nose[2]) * 1000) \div (torso * 12))
      legs_accuracy ==
        IF left_knee[2] > left_hip[2] /\ right_knee[2] > right_hip[2] THEN 2000 ELSE 500
      accuracy == upright_accuracy + spine_accuracy + legs_accuracy
  IN  Min(10000, Max(0, accuracy))

\* A variant of check_pose_accuracy without the early return of lines 104-105:
\* an absent result is scored as a landmark list with no entries.
check_pose_accuracy_unguarded(level, res) ==
  LET torso == torso_dist(res.landmark)
      accuracy ==
        CASE level = 1 -> mountain_accuracy(res.landmark, torso)
          [] level = 2 -> tree_accuracy(res.landmark, torso)
          [] level = 3 -> warrior_accuracy(res.landmark, torso)
          [] level = 4 -> child_accuracy(res.landmark, torso)
          [] level = 5 -> lotus_accuracy(res.landmark, torso)
          [] OTHER -> 0
  IN  <<accuracy >= ACCURACY_THRESHOLD, accuracy>>

\* A detector result is [detected |-> BOOLEAN, landmark |-> landmark list];
\* detected = FALSE stands for results.pose_landmarks being None.
\* Returns <<is_correct, accuracy>>.
check_pose_accuracy(level, res) ==
  IF ~res.detected THEN <<FALSE, 0>>
  ELSE LET torso == torso_dist(res.landmark)
           accuracy ==
             CASE level = 1 -> mountain_accuracy(res.landmark, torso)
               [] level = 2 -> tree_accuracy(res.landmark, torso)
               [] level = 3 -> warrior_accuracy(res.landmark, torso)
               [] level = 4 -> child_accuracy(res.landmark, torso)
               [] level = 5 -> lotus_accuracy(res.landmark, torso)
               [] OTHER -> 0
       IN  <<accuracy >= ACCURACY_THRESHOLD, accuracy>>

(***************************************************************************)
(* Detector results (results = pose.process(rgb_frame), main.py:647)       *)
(***************************************************************************)
\* 33 landmarks, the joints given and every other landmark mid-frame.
Skeleton(joints) ==
  [i \in 1..33 |-> IF (i - 1) \in DOMAIN joints THEN joints[i - 1] ELSE <<50, 50>>]

MountainPose ==
  Skeleton(0 :> <<50, 13>> @@ 11 :> <<50, 25>> @@ 12 :> <<50, 25>> @@
           13 :> <<69, 30>> @@ 14 :> <<69, 30>> @@ 15 :> <<32, 25>> @@
           16 :> <<32, 25>> @@ 23 :> <<50, 59>> @@ 24 :> <<50, 59>> @@
           25 :> <<50, 75>> @@ 26 :> <<50, 75>> @@ 27 :> <<50, 92>> @@
           28 :> <<50, 92>>)

TreePose ==
  Skeleton(0 :> <<50, 13>> @@ 11 :> <<44, 25>> @@ 12 :> <<57, 25>> @@
           13 :> <<41, 38>> @@ 14 :> <<60, 38>> @@ 15 :> <<47, 34>> @@
           16 :> <<54, 34>> @@ 23 :> <<47, 59>> @@ 24 :> <<54, 59>> @@
           25 :> <<38, 46>> @@ 26 :> <<54, 71>> @@ 27 :> <<47, 34>> @@
           28 :> <<54, 84>>)

WarriorPose ==
  Skeleton(0 :> <<50, 13>> @@ 11 :> <<44, 25>> @@ 12 :> <<57, 25>> @@
           13 :> <<41, 13>> @@ 14 :> <<60, 13>> @@ 15 :> <<44, 5>> @@
           16 :> <<57, 5>> @@ 23 :> <<47, 59>> @@ 24 :> <<54, 59>> @@
           25 :> <<47, 75>> @@ 26 :> <<54, 75>> @@ 27 :> <<35, 75>> @@
           28 :> <<66, 75>>)

ChildPose ==
  Skeleton(0 :> <<19, 84>> @@ 11 :> <<32, 71>> @@ 12 :> <<32, 75>> @@
           13 :> <<19, 84>> @@ 14 :> <<19, 88>> @@ 15 :> <<10, 88>> @@
           16 :> <<10, 92>> @@ 23 :> <<63, 59>> @@ 24 :> <<63, 63>> @@
           25 :> <<50, 84>> @@ 26 :> <<50, 88>> @@ 27 :> <<75, 88>> @@
           28 :> <<75, 92>>)

LotusPose ==
  Skeleton(0 :> <<13, 50>> @@ 11 :> <<25, 46>> @@ 12 :> <<25, 55>> @@
           13 :> <<32, 59>> @@ 14 :> <<32, 63>> @@ 15 :> <<41, 59>> @@
           16 :> <<41, 63>> @@ 23 :> <<50, 46>> @@ 24 :> <<50, 55>> @@
           25 :> <<57, 63>> @@ 26 :> <<57, 67>> @@ 27 :> <<47, 63>> @@
           28 :> <<47, 67>>)

StandingPose ==
  Skeleton(0 :> <<50, 13>> @@ 11 :> <<41, 25>> @@ 12 :> <<60, 25>> @@
           13 :> <<38, 42>> @@ 14 :> <<63, 42>> @@ 15 :> <<38, 59>> @@
           16 :> <<63, 59>> @@ 23 :> <<44, 59>> @@ 24 :> <<57, 59>> @@
           25 :> <<44, 75>> @@ 26 :> <<57, 75>> @@ 27 :> <<41, 92>> @@
           28 :> <<60, 92>>)

\* Mountain Pose seen from the side: ankles together, shoulders level and
\* one behind the other, hands a little forward so that both elbows are bent
\* to 170 degrees.
MountainSideView ==
  Skeleton(0 :> <<50, 9>> @@ 11 :> <<50, 21>> @@ 12 :> <<50, 21>> @@
           13 :> <<50, 46>> @@ 14 :> <<50, 46>> @@ 15 :> <<54, 71>> @@
           16 :> <<54, 71>> @@ 23 :> <<50, 55>> @@ 24 :> <<50, 55>> @@
           25 :> <<50, 75>> @@ 26 :> <<50, 75>> @@ 27 :> <<50, 92>> @@
           28 :> <<50, 92>>)

\* Mountain Pose seen from the front: ankles together, shoulders level and
\* apart, hands a little out so that both elbows are bent to 170 degrees.
MountainFrontView ==
  Skeleton(0 :> <<50, 9>> @@ 11 :> <<60, 21>> @@ 12 :> <<41, 21>> @@
           13 :> <<60, 46>> @@ 14 :> <<41, 46>> @@ 15 :> <<63, 71>> @@
           16 :> <<38, 71>> @@ 23 :> <<54, 55>> @@ 24 :> <<47, 55>> @@
           25 :> <<50, 75>> @@ 26 :> <<50, 75>> @@ 27 :> <<50, 92>> @@
           28 :> <<50, 92>>)

\* No pose detected: results.pose_landmarks is None.
NoPose == [detected |-> FALSE, landmark |-> <<>>]

Detected(landmarks) == [detected |-> TRUE, landmark |-> landmarks]

Poses == {MountainPose, TreePose, WarriorPose, ChildPose, LotusPose, StandingPose}

\* The landmarks check_pose_accuracy reads.
UsedLandmarks == {0, 11, 12, 13, 14, 15, 16, 23, 24, 25, 26, 27, 28}

\* Lengths of landmark lists cut short.
ListLengths == {0, 1, 12, 14, 16, 24, 26, 28}

\* Positions a single landmark is moved to, some outside the frame.
PerturbGrid == {<<x, y>> : x \in {-30, 20, 60, 130}, y \in {-30, 20, 60, 130}}

LandmarkLists ==
  Poses
  \cup {SubSeq(P, 1, n) : P \in Poses, n \in ListLengths}
  \cup {[P EXCEPT ![j + 1] = g] : P \in Poses, j \in UsedLandmarks, g \in PerturbGrid}

ScoreInputs ==
  {NoPose} \cup {Detected(l) : l \in LandmarkLists}
           \cup {Detected(MountainSideView), Detected(MountainFrontView)}

\* Levels a call is made with, 0 and 6 being no level.
ScoreLevels == 0..6

(***************************************************************************)
(* State after construction (main.py:550-580)                              *)
(***************************************************************************)
\* The frame record before any frame was processed.  level is the level the
\* frame was scored on, now the last time read in the frame, said the messages
\* passed to speak_text, in order.  hold_level is the level on which
\* pose_hold_time was last recorded; last_hint is the time of the last
\* "incorrect" feedback since the last correct frame, 0 if there was none.
NoFrame ==
  [detected |-> FALSE, level |-> 0, accuracy |-> 0, adjusted |-> 0,
   smoothed |-> 0, is_correct |-> FALSE, hold_started |-> FALSE,
   hold_duration |-> 0, completed |-> FALSE, now |-> 0, said |-> <<>>,
   hold_level |-> 0, last_hint |-> 0]

\* The speech channel after lines 49-70: nothing queued, the worker thread
\* started and not yet run.
SpeechInit ==
  /\ speech_queue = <<>>
  /\ speech_thread = "start"
  /\ worker_text = ""
  /\ enqueued = <<>>
  /\ spoken = <<>>
  /\ printed = <<>>
  /\ engine_raised = FALSE

MainInit ==
  /\ current_level = 1
  /\ pose_correct = FALSE
  /\ level_complete = FALSE
  /\ pose_hold_time = 0
  /\ last_incorrect_feedback_time = 0
  /\ accuracy_history = [i \in 1..5 |-> <<>>]
  /\ DEBUG_METRICS = FALSE
  /\ clock = 1
  /\ key = -1
  /\ iterations = 0
  /\ frame = NoFrame
  /\ speech_engine = TRUE
  /\ SpeechInit

mainVars == <<current_level, pose_correct, level_complete, pose_hold_time,
              last_incorrect_feedback_time, accuracy_history, DEBUG_METRICS,
              clock, key, iterations, frame>>

scoreVars == <<pose_level, results, ret>>

speechVars == <<speech_engine, speech_queue, speech_thread, worker_text,
                enqueued, spoken, printed, engine_raised>>

(***************************************************************************)
(* The scorer alone: one call per behaviour, on any level and result       *)
(***************************************************************************)
InitScore ==
  /\ MainInit
  /\ pc = "call"
  /\ pose_level \in ScoreLevels
  /\ results \in ScoreInputs
  /\ ret = <<FALSE, 0>>

Score ==
  /\ pc = "call"
  /\ ret' = check_pose_accuracy(pose_level, results)
  /\ pc' = "return"
  /\ UNCHANGED <<pose_level, results, mainVars, speechVars>>

NextScore == Score

SpecScore == InitScore /\ [][NextScore]_vars

(***************************************************************************)
(* Main loop (main.py:641-802)                                             *)
(***************************************************************************)
\* Bounds of the model: the last clock value, the longest time between the
\* two clock reads of one frame (lines 713 and 716), the number of frames.
MaxTime == 11

MaxLag == 1

MaxIterations == 4

\* The times that pass between the last clock read of one frame and the first
\* of the next, in half seconds.
FrameDelays == {0, 4, 5}

\* A variant of timing_settings that asks 2.0 seconds of every level.
timing_settings_uniform(level) == 4

\* Required hold times, in half seconds (line 558).
timing_settings(level) ==
  CASE level = 1 -> 4
    [] level = 2 -> 6
    [] level = 3 -> 5
    [] level = 4 -> 4
    [] level = 5 -> 6

\* A message passed to speak_text: what is said, and the level it names.
Say(text, level) == <<text, level>>

\* The messages speak_pose_feedback passes to speak_text (lines 89-101).
speak_pose_feedback(is_correct, level) ==
  IF is_correct THEN <<Say("good_job", 0)>>
  ELSE IF level \in 1..5 THEN <<Say("hint", level)>>
  ELSE <<Say("keep_trying", 0)>>

\* The messages speak_level_complete passes to speak_text (lines 278-282).
speak_level_complete(level) ==
  IF level < 5 THEN <<Say("level_complete", level)>>
  ELSE <<Say("all_levels_complete", 0)>>

\* Line 679.
adjusted_accuracy(accuracy) == Min(10000, (accuracy * SENSITIVITY) \div 100)

\* A variant of deque_append for a deque without maxlen.
deque_append_unbounded(history, sample) == Append(history, sample)

\* deque(maxlen=SMOOTHING_WINDOW).append (lines 580, 680).
deque_append(history, sample) ==
  IF Len(history) = SMOOTHING_WINDOW
    THEN Append(Tail(history), sample)
    ELSE Append(history, sample)

RECURSIVE Sum(_)
Sum(seq) == IF seq = <<>> THEN 0 ELSE Head(seq) + Sum(Tail(seq))

\* A variant of smoothed_accuracy that leaves the samples of 0 out of the mean.
smoothed_accuracy_skips_zero(history) ==
  LET seen == SelectSeq(history, LAMBDA sample : sample # 0)
  IN  IF seen = <<>> THEN 0 ELSE Sum(seen) \div Len(seen)

\* Line 681.
smoothed_accuracy(history) == Sum(history) \div Len(history)

\* A variant of judged_correct that accepts a smoothed accuracy of 50.
judged_correct_from_half(smoothed) == 2 * smoothed >= 10000

\* Line 682.
judged_correct(smoothed) == smoothed >= ACCURACY_THRESHOLD

\* A variant of complete_level that leaves pose_correct set.
complete_level_keeps_hold(level) ==
  IF level < 5
    THEN [current_level |-> level + 1, pose_correct |-> TRUE,
          level_complete |-> FALSE,
          said |-> speak_level_complete(level)
                   \o <<Say("pose_sound", level + 1),
                        Say("voice_instruction", level + 1)>>]
    ELSE [current_level |-> 1, pose_correct |-> TRUE,
          level_complete |-> FALSE,
          said |-> speak_level_complete(level) \o <<Say("restart", 1)>>]

\* A variant of complete_level that advances from level 5 as from any other.
complete_level_no_wrap(level) ==
  [current_level |-> level + 1, pose_correct |-> FALSE,
   level_complete |-> FALSE,
   said |-> speak_level_complete(level)]

\* Level completion (lines 724-746): the state it leaves and what it says.
complete_level(level) ==
  IF level < 5
    THEN [current_level |-> level + 1, pose_correct |-> FALSE,
          level_complete |-> FALSE,
          said |-> speak_level_complete(level)
                   \o <<Say("pose_sound", level + 1),
                        Say("voice_instruction", level + 1)>>]
    ELSE [current_level |-> 1, pose_correct |-> FALSE,
          level_complete |-> FALSE,
          said |-> speak_level_complete(level) \o <<Say("restart", 1)>>]

\* A variant of hold_starts that starts a hold on every correct frame.
hold_starts_every_frame(is_correct, was_correct) == is_correct

\* Whether a frame starts a hold (lines 710 and 712).
hold_starts(is_correct, was_correct) == is_correct /\ ~was_correct

\* A variant of incorrect_feedback_due that speaks again after exactly 2.0
\* seconds.
incorrect_feedback_due_at_interval(was_correct, last, now) ==
  was_correct \/ last = 0 \/ now - last >= 4

\* Whether an incorrect frame speaks the level's hint (lines 756-761); the
\* interval is 2.0 seconds.
incorrect_feedback_due(was_correct, last, now) ==
  was_correct \/ last = 0 \/ now - last > 4

\* A variant of after_incorrect that leaves pose_correct as it was.
after_incorrect_keeps_hold ==
  [pose_correct |-> pose_correct, level_complete |-> FALSE]

\* The state an incorrect frame leaves in pose_correct and level_complete
\* (lines 762-763).
after_incorrect == [pose_correct |-> FALSE, level_complete |-> FALSE]

\* cap.read() fails: the loop ends (lines 642-644).
ReadFail ==
  /\ pc = "frame"
  /\ pc' = "done"
  /\ UNCHANGED <<mainVars, scoreVars, speechVars>>

\* The results the detector returns in the main loop.
FrameResults == {NoPose, Detected(ChildPose), Detected(LotusPose)}

\* check_pose_accuracy on every level and result of the main loop, computed
\* once: the triples <<level, result, returned value>>.
frame_scores ==
  {<<level, r, check_pose_accuracy(level, r)>> : level \in 1..5, r \in FrameResults}

\* The value check_pose_accuracy(level, r) returns.
frame_score(level, r) ==
  (CHOOSE t \in frame_scores : t[1] = level /\ t[2] = r)[3]

\* One frame from line 674 on.  detected tells whether results.pose_landmarks
\* is set, returned is the accuracy check_pose_accuracy returned on line 671,
\* dt the time since the last clock read, lag the time between the reads of
\* lines 713 and 716.  The values computed once are bound by \E over a
\* singleton.
FrameBody(detected, returned, dt, lag) ==
  /\ pc = "frame"
  /\ \E accuracy \in {IF ~detected THEN 0 ELSE returned} :
       \E adjusted \in {adjusted_accuracy(accuracy)} :
       \E history \in {deque_append(accuracy_history[current_level], adjusted)} :
       \E smoothed \in {smoothed_accuracy(history)} :
       \E is_correct \in {judged_correct(smoothed)} :
       \E starts \in {hold_starts(is_correct, pose_correct)} :
       \E now \in {IF starts THEN clock + dt + lag ELSE clock + dt} :
       \E hold_start \in {IF starts THEN clock + dt ELSE pose_hold_time} :
       \E hold_duration \in {now - hold_start} :
       \E completes \in {/\ is_correct
                         /\ hold_duration >= timing_settings(current_level)
                         /\ ~level_complete} :
       \E hints \in {/\ ~is_correct
                     /\ incorrect_feedback_due(pose_correct,
                                               last_incorrect_feedback_time, now)} :
       \E done \in {complete_level(current_level)} :
           /\ now <= MaxTime
           /\ starts \/ lag = 0
           /\ pc' = "key"
           /\ iterations' = iterations + 1
           /\ clock' = now
           /\ accuracy_history' = [accuracy_history EXCEPT ![current_level] = history]
           /\ IF is_correct
                THEN /\ pose_hold_time' = hold_start
                     /\ last_incorrect_feedback_time' = 0
                     /\ IF completes
                          THEN /\ current_level' = done.current_level
                               /\ pose_correct' = done.pose_correct
                               /\ level_complete' = done.level_complete
                          ELSE /\ pose_correct' = TRUE
                               /\ UNCHANGED <<current_level, level_complete>>
                ELSE /\ last_incorrect_feedback_time' =
                          IF hints THEN now ELSE last_incorrect_feedback_time
                     /\ pose_correct' = after_incorrect.pose_correct
                     /\ level_complete' = after_incorrect.level_complete
                     /\ UNCHANGED <<current_level, pose_hold_time>>
           /\ frame' =
                [detected |-> detected, level |-> current_level,
                 accuracy |-> accuracy, adjusted |-> adjusted, smoothed |-> smoothed,
                 is_correct |-> is_correct, hold_started |-> starts,
                 hold_duration |-> IF is_correct THEN hold_duration ELSE 0,
                 completed |-> completes, now |-> now,
                 said |-> (IF starts THEN speak_pose_feedback(TRUE, current_level)
                                     ELSE <<>>)
                          \o (IF completes THEN done.said ELSE <<>>)
                          \o (IF hints THEN speak_pose_feedback(FALSE, current_level)
                                       ELSE <<>>),
                 hold_level |-> IF starts THEN current_level ELSE frame.hold_level,
                 last_hint |-> IF is_correct THEN 0
                               ELSE IF hints THEN now ELSE frame.last_hint]
           /\ UNCHANGED <<DEBUG_METRICS, key, scoreVars, speechVars>>

\* One frame, lines 642-779, r being the detector's result.
ProcessFrame(r, dt, lag) ==
  /\ pc = "frame"
  /\ iterations < MaxIterations
  /\ FrameBody(r.detected, frame_score(current_level, r)[2], dt, lag)

Frame ==
  \E r \in FrameResults, dt \in FrameDelays, lag \in 0..MaxLag :
    ProcessFrame(r, dt, lag)

\* ord(c) for the characters the key handling names.
ord(c) ==
  CASE c = "q" -> 113
    [] c = "r" -> 114
    [] c = "d" -> 100
    [] c = "0" -> 48
    [] c = "1" -> 49
    [] c = "2" -> 50
    [] c = "3" -> 51
    [] c = "4" -> 52
    [] c = "5" -> 53
    [] c = "6" -> 54

\* Values of cv2.waitKey(1) & 0xFF: 255 when no key was pressed.
Keys == {255, ord("q"), ord("r"), ord("d"), ord("5"), ord("6")}

LevelKeys == {ord("1"), ord("2"), ord("3"), ord("4"), ord("5")}

\* Lines 781-782.
KeyQuit ==
  /\ pc = "key"
  /\ key' = ord("q")
  /\ pc' = "done"
  /\ UNCHANGED <<current_level, pose_correct, level_complete, pose_hold_time,
                 last_incorrect_feedback_time, accuracy_history, DEBUG_METRICS,
                 clock, iterations, frame, scoreVars, speechVars>>

\* A variant of reset_state that counts the levels from 0.
reset_state_from_zero ==
  [current_level |-> 0, pose_correct |-> FALSE, level_complete |-> FALSE]

\* The state the reset command leaves (lines 784-786).
reset_state == [current_level |-> 1, pose_correct |-> FALSE, level_complete |-> FALSE]

\* A variant of KeyReset that also empties the accuracy histories.
KeyResetClearsHistory ==
  /\ pc = "key"
  /\ key' = ord("r")
  /\ current_level' = reset_state.current_level
  /\ pose_correct' = reset_state.pose_correct
  /\ level_complete' = reset_state.level_complete
  /\ accuracy_history' = [i \in 1..5 |-> <<>>]
  /\ frame' = [frame EXCEPT !.said = Append(@, Say("reset", 1))]
  /\ pc' = "frame"
  /\ UNCHANGED <<pose_hold_time, last_incorrect_feedback_time, DEBUG_METRICS,
                 clock, iterations, scoreVars, speechVars>>

\* Lines 783-788.
KeyReset ==
  /\ pc = "key"
  /\ key' = ord("r")
  /\ current_level' = reset_state.current_level
  /\ pose_correct' = reset_state.pose_correct
  /\ level_complete' = reset_state.level_complete
  /\ frame' = [frame EXCEPT !.said = Append(@, Say("reset", 1))]
  /\ pc' = "frame"
  /\ UNCHANGED <<pose_hold_time, last_incorrect_feedback_time, accuracy_history,
                 DEBUG_METRICS, clock, iterations, scoreVars, speechVars>>

\* Lines 789-793.
KeyDebug ==
  /\ pc = "key"
  /\ key' = ord("d")
  /\ DEBUG_METRICS' = ~DEBUG_METRICS
  /\ frame' = [frame EXCEPT !.said =
                 Append(@, Say(IF DEBUG_METRICS' THEN "debug_enabled"
                                                 ELSE "debug_disabled", 0))]
  /\ pc' = "frame"
  /\ UNCHANGED <<current_level, pose_correct, level_complete, pose_hold_time,
                 last_incorrect_feedback_time, accuracy_history, clock,
                 iterations, scoreVars, speechVars>>

\* A variant of jump_state that leaves pose_correct as it was.
jump_state_keeps_hold(new_level) ==
  [current_level |-> new_level, pose_correct |-> pose_correct,
   level_complete |-> FALSE]

\* The state a jump to new_level leaves (lines 797-799).
jump_state(new_level) ==
  [current_level |-> new_level, pose_correct |-> FALSE, level_complete |-> FALSE]

\* Lines 794-802; int(chr(key)) of a digit key is key - ord("0").
KeyLevel ==
  \E k \in Keys \cap LevelKeys :
    LET new_level == k - ord("0")
    IN  /\ pc = "key"
        /\ key' = k
        /\ IF 1 <= new_level /\ new_level <= 5
             THEN /\ current_level' = jump_state(new_level).current_level
                  /\ pose_correct' = jump_state(new_level).pose_correct
                  /\ level_complete' = jump_state(new_level).level_complete
                  /\ frame' = [frame EXCEPT !.said =
                                 @ \o <<Say("pose_sound", new_level),
                                        Say("voice_instruction", new_level)>>]
             ELSE UNCHANGED <<current_level, pose_correct, level_complete, frame>>
        /\ pc' = "frame"
        /\ UNCHANGED <<pose_hold_time, last_incorrect_feedback_time,
                       accuracy_history, DEBUG_METRICS, clock, iterations,
                       scoreVars, speechVars>>

\* A variant of KeyIgnored in which a key no branch names acts as the reset
\* command.
KeyIgnoredResets ==
  \E k \in (Keys \ LevelKeys) \ {ord("q"), ord("r"), ord("d")} :
    /\ pc = "key"
    /\ key' = k
    /\ current_level' = reset_state.current_level
    /\ pose_correct' = reset_state.pose_correct
    /\ level_complete' = reset_state.level_complete
    /\ pc' = "frame"
    /\ UNCHANGED <<pose_hold_time, last_incorrect_feedback_time,
                   accuracy_history, DEBUG_METRICS, clock, iterations, frame,
                   scoreVars, speechVars>>

\* No key, or a key no branch of lines 781-794 names.
KeyIgnored ==
  \E k \in (Keys \ LevelKeys) \ {ord("q"), ord("r"), ord("d")} :
    /\ pc = "key"
    /\ key' = k
    /\ pc' = "frame"
    /\ UNCHANGED <<current_level, pose_correct, level_complete, pose_hold_time,
                   last_incorrect_feedback_time, accuracy_history, DEBUG_METRICS,
                   clock, iterations, frame, scoreVars, speechVars>>

Init ==
  /\ MainInit
  /\ pc = "frame"
  /\ pose_level = 0
  /\ results = NoPose
  /\ ret = <<FALSE, 0>>

Next ==
  \/ Frame
  \/ ReadFail
  \/ KeyQuit
  \/ KeyReset
  \/ KeyDebug
  \/ KeyLevel
  \/ KeyIgnored

Spec == Init /\ [][Next]_vars

(***************************************************************************)
(* The main loop on a fast camera: many frames within one tick of the      *)
(* clock, the accuracy returned on line 671 being the input                *)
(***************************************************************************)
MaxSamples == 5

\* Accuracies check_pose_accuracy returns; line 679 adjusts 74.08 to 80.00.
RawAccuracies == {0, 7408, 10000}

\* A frame with landmarks and any of the accuracies, or one without
\* landmarks, for which line 671 returns 0.
SmoothFrame ==
  /\ iterations < MaxSamples
  /\ \/ \E returned \in RawAccuracies : FrameBody(TRUE, returned, 0, 0)
     \/ FrameBody(FALSE, 0, 0, 0)

NextSmooth ==
  \/ SmoothFrame
  \/ KeyLevel
  \/ KeyIgnored

SpecSmooth == Init /\ [][NextSmooth]_vars

(***************************************************************************)
(* The speech channel (main.py:49-87, 805): the main thread calls          *)
(* speak_text and then cleanup_speech while _speech_worker runs            *)
(***************************************************************************)
MaxMessages == 3

\* The texts the main thread speaks.
Texts == {"good_job", "hint"}

\* The stop sentinel of lines 62 and 84.
None == "None"

\* A variant of queue_put for a queue.LifoQueue.
queue_put_lifo(q, item) == <<item>> \o q

\* speech_queue.put(item) on the unbounded queue.Queue of line 49.
queue_put(q, item) == Append(q, item)

\* A variant of worker_next that passes the sentinel on to the engine.
worker_next_speaks_all(item) == "say"

\* Where the worker goes with the item it took from the queue (lines 62-64).
worker_next(item) == IF item = None THEN "ended" ELSE "say"

\* A variant of worker_after_raise for a handler that goes on with the loop.
worker_after_raise_goes_on == "get"

\* Where the worker goes when the engine raises (lines 66-67).
worker_after_raise == "ended"

\* The main thread in the speech specification is in the main loop ("loop"),
\* in speech_thread.join ("join"), back from cleanup_speech ("returned") or
\* gone with the process ("exited"); iterations counts the speak_text calls.
InitSpeech ==
  /\ current_level = 1
  /\ pose_correct = FALSE
  /\ level_complete = FALSE
  /\ pose_hold_time = 0
  /\ last_incorrect_feedback_time = 0
  /\ accuracy_history = [i \in 1..5 |-> <<>>]
  /\ DEBUG_METRICS = FALSE
  /\ clock = 1
  /\ key = -1
  /\ iterations = 0
  /\ frame = NoFrame
  /\ pose_level = 0
  /\ results = NoPose
  /\ ret = <<FALSE, 0>>
  /\ pc = "loop"
  /\ speech_engine \in BOOLEAN
  /\ SpeechInit

loopVars == <<current_level, pose_correct, level_complete, pose_hold_time,
              last_incorrect_feedback_time, accuracy_history, DEBUG_METRICS,
              clock, key, frame, scoreVars>>

\* speak_text (lines 72-80).
SpeakText ==
  /\ pc = "loop"
  /\ iterations < MaxMessages
  /\ \E t \in Texts :
       IF ~speech_engine
         THEN /\ printed' = Append(printed, t)
              /\ UNCHANGED <<speech_queue, enqueued>>
         ELSE /\ speech_queue' = queue_put(speech_queue, t)
              /\ enqueued' = Append(enqueued, t)
              /\ UNCHANGED printed
  /\ iterations' = iterations + 1
  /\ UNCHANGED <<pc, loopVars, speech_engine, speech_thread, worker_text,
                 spoken, engine_raised>>

\* The loop ends and cleanup_speech puts the sentinel (lines 83-84, 805).
CleanupPut ==
  /\ pc = "loop"
  /\ speech_queue' = queue_put(speech_queue, None)
  /\ pc' = "join"
  /\ UNCHANGED <<iterations, loopVars, speech_engine, speech_thread,
                 worker_text, enqueued, spoken, printed, engine_raised>>

\* speech_thread.join(timeout=1.0) returns because the worker has ended
\* (line 85).
JoinEnded ==
  /\ pc = "join"
  /\ speech_thread = "ended"
  /\ pc' = "returned"
  /\ UNCHANGED <<iterations, loopVars, speechVars>>

\* speech_thread.join(timeout=1.0) returns because the second has passed
\* (line 85).
JoinTimeout ==
  /\ pc = "join"
  /\ speech_thread # "ended"
  /\ pc' = "returned"
  /\ UNCHANGED <<iterations, loopVars, speechVars>>

\* The module ends after line 805 and the process exits; the worker is a
\* daemon thread (line 69) and goes with it.
Exit ==
  /\ pc = "returned"
  /\ pc' = "exited"
  /\ speech_thread' = IF speech_thread = "ended" THEN "ended" ELSE "killed"
  /\ UNCHANGED <<iterations, loopVars, speech_engine, speech_queue,
                 worker_text, enqueued, spoken, printed, engine_raised>>

\* _speech_worker begins (lines 56-59).
WorkerStart ==
  /\ speech_thread = "start"
  /\ pc # "exited"
  /\ speech_thread' = IF ~speech_engine THEN "ended" ELSE "get"
  /\ UNCHANGED <<pc, iterations, loopVars, speech_engine, speech_queue,
                 worker_text, enqueued, spoken, printed, engine_raised>>

\* speech_queue.get() returns an item (lines 61-63); it blocks while the queue
\* is empty.
WorkerGet ==
  /\ speech_thread = "get"
  /\ pc # "exited"
  /\ speech_queue # <<>>
  /\ worker_text' = Head(speech_queue)
  /\ speech_queue' = Tail(speech_queue)
  /\ speech_thread' = worker_next(Head(speech_queue))
  /\ UNCHANGED <<pc, iterations, loopVars, speech_engine, enqueued, spoken,
                 printed, engine_raised>>

\* speech_engine.say(text) and runAndWait() return (lines 64-65).
WorkerSay ==
  /\ speech_thread = "say"
  /\ pc # "exited"
  /\ spoken' = Append(spoken, worker_text)
  /\ speech_thread' = "get"
  /\ UNCHANGED <<pc, iterations, loopVars, speech_engine, speech_queue,
                 worker_text, enqueued, printed, engine_raised>>

\* speech_engine.say(text) or runAndWait() raises (lines 64-67), before or
\* after the text was heard.
WorkerRaise ==
  /\ speech_thread = "say"
  /\ pc # "exited"
  /\ \E heard \in BOOLEAN :
       spoken' = IF heard THEN Append(spoken, worker_text) ELSE spoken
  /\ engine_raised' = TRUE
  /\ speech_thread' = worker_after_raise
  /\ UNCHANGED <<pc, iterations, loopVars, speech_engine, speech_queue,
                 worker_text, enqueued, printed>>

NextSpeech ==
  \/ SpeakText
  \/ CleanupPut
  \/ JoinEnded
  \/ JoinTimeout
  \/ Exit
  \/ WorkerStart
  \/ WorkerGet
  \/ WorkerSay
  \/ WorkerRaise

SpecSpeech == InitSpeech /\ [][NextSpeech]_vars

(***************************************************************************)
(* Steps of the main loop                                                  *)
(***************************************************************************)
\* A step that processes one frame, up to the read of the key.
FrameStep == pc = "frame" /\ pc' = "key"

\* A step that handles the key read on line 780.
KeyStep == pc = "key" /\ pc' # "key"

\* The keys lines 781-794 name.
HandledKeys ==
  {ord("q"), ord("r"), ord("d"), ord("1"), ord("2"), ord("3"), ord("4"), ord("5")}

\* Whether message text was passed to speak_text in the frame f or by the key
\* handled after it.
Said(f, text) == \E i \in 1..Len(f.said) : f.said[i][1] = text

(***************************************************************************)
(* Properties of check_pose_accuracy, checked under SpecScore             *)
(***************************************************************************)
\* C1: for every level 1..5 and every present landmark list, whatever its
\* coordinates and its length, the accuracy check_pose_accuracy returns lies
\* in [0, 100]; for a level outside 1..5 it is 0.
C1_AccuracyInRange ==
  pc = "return" /\ results.detected =>
    /\ ret[2] >= 0
    /\ ret[2] <= 10000
    /\ (pose_level \notin 1..5 => ret[2] = 0)

\* A call on level 1 with a landmark moved outside the frame returned 0, and
\* so the lower clamp was reached.
C1_Witness ==
  /\ pc = "return"
  /\ results.detected
  /\ pose_level = 1
  /\ Len(results.landmark) = 33
  /\ \E i \in 1..33 : results.landmark[i][1] < 0 \/ results.landmark[i][1] > 100
  /\ ret = <<FALSE, 0>>

\* C7: when the detector result is absent or carries no landmarks,
\* check_pose_accuracy returns exactly (False, 0.0), on every level.
C7_AbsentLandmarks ==
  pc = "return" /\ ~results.detected => ret = <<FALSE, 0>>

\* A call on level 4, where a list without entries scores 100, returned
\* (False, 0.0) for an absent result.
C7_Witness ==
  /\ pc = "return"
  /\ ~results.detected
  /\ pose_level = 4
  /\ ret = <<FALSE, 0>>
  /\ check_pose_accuracy_unguarded(4, results) = <<TRUE, 10000>>

(***************************************************************************)
(* Properties of the main loop, checked under Spec                         *)
(***************************************************************************)
\* C2: while a hold is in progress and the frames stay correct, completion
\* fires on the first frame on which the time since the hold started has
\* reached the level's required time, and not before; the frame that fires
\* it ends the hold, so the next frame cannot fire it again: a new hold has
\* to be started and held for the full required time.
C2_CompletionFiresOnce ==
  [][FrameStep =>
       /\ (pose_correct /\ frame'.is_correct
             => (frame'.completed
                   <=> clock' - pose_hold_time >= timing_settings(current_level)))
       /\ (pose_correct /\ frame'.is_correct /\ ~frame'.completed
             => pose_correct' /\ pose_hold_time' = pose_hold_time)
       /\ (frame'.completed
             => /\ Said(frame', "level_complete") \/ Said(frame', "all_levels_complete")
                /\ ~pose_correct'
                /\ ~level_complete')
       /\ (~frame'.completed
             => ~Said(frame', "level_complete") /\ ~Said(frame', "all_levels_complete"))
       /\ (frame.completed => ~frame'.completed)]_vars

\* Level 1 was completed by one hold and level 2 by another.
C2_Witness ==
  /\ pc = "key"
  /\ frame.completed
  /\ ~frame.hold_started
  /\ frame.level = 2
  /\ current_level = 3
  /\ frame.hold_duration >= timing_settings(2)

\* C3: a frame judged incorrect clears pose_correct (and level_complete), no
\* key sets it again, and the next correct frame records a hold start that is
\* not earlier than that frame, so the hold duration restarts from zero.
C3_IncorrectFrameResetsHold ==
  [][/\ FrameStep /\ ~frame'.is_correct
          => ~pose_correct' /\ ~level_complete' /\ ~frame'.completed
     /\ FrameStep /\ ~pose_correct /\ frame'.is_correct
          => /\ frame'.hold_started
             /\ pose_hold_time' >= clock
             /\ frame'.hold_duration = clock' - pose_hold_time'
             /\ frame'.hold_duration <= MaxLag
     /\ KeyStep /\ ~pose_correct => ~pose_correct']_vars

\* On level 5 a correct frame was followed by an incorrect one and then by a
\* correct one, which started a new hold.
C3_Witness ==
  /\ pc = "key"
  /\ frame.level = 5
  /\ frame.hold_started
  /\ Len(accuracy_history[5]) = 3
  /\ accuracy_history[5][1] >= ACCURACY_THRESHOLD
  /\ accuracy_history[5][2] = 0
  /\ pose_hold_time > 1
  /\ frame.hold_duration <= MaxLag

\* C4: the level changes in a frame only if the frame is judged correct and
\* the time since the recorded hold start is at least 2.0, 3.0, 2.5, 2.0, 3.0
\* seconds on levels 1..5; the hold start was recorded on the same level; and
\* from a level L < 5 the change is to L + 1.
C4_AutomaticLevelChange ==
  [][FrameStep /\ current_level' # current_level
       => /\ frame'.is_correct
          /\ frame'.smoothed >= 5500
          /\ clock' - pose_hold_time' >=
               (CASE current_level = 1 -> 4
                  [] current_level = 2 -> 6
                  [] current_level = 3 -> 5
                  [] current_level = 4 -> 4
                  [] current_level = 5 -> 6)
          /\ frame'.hold_level = current_level
          /\ (current_level < 5 => current_level' = current_level + 1)]_vars

\* Level 1 was completed after a hold of 2.0 seconds or more and level 2 is
\* the current level.
C4_Witness ==
  /\ pc = "key"
  /\ frame.completed
  /\ frame.level = 1
  /\ frame.hold_level = 1
  /\ frame.hold_duration >= 4
  /\ current_level = 2

\* C5: after the frame that completes level 5 the current level is 1, never
\* 6, pose_correct and level_complete are false, and the loop goes on to read
\* the key.
C5_LevelWrap ==
  [][FrameStep /\ frame'.completed /\ current_level = 5
       => /\ current_level' = 1
          /\ ~pose_correct'
          /\ ~level_complete'
          /\ pc' = "key"]_vars

\* Level 5 was completed after a hold of 3.0 seconds.
C5_Witness ==
  /\ pc = "key"
  /\ frame.completed
  /\ frame.level = 5
  /\ frame.hold_duration >= 6
  /\ Said(frame, "all_levels_complete")
  /\ current_level = 1

\* C8: a key other than 'q', 'r', 'd' and '1'..'5' (no key included) leaves
\* the current level, pose_correct, level_complete, the hold start and every
\* accuracy history as they were.
C8_OtherKeysIgnored ==
  [][KeyStep /\ key' \notin HandledKeys
       => UNCHANGED <<current_level, pose_correct, level_complete,
                      pose_hold_time, accuracy_history>>]_vars

\* The key '6' was pressed during a hold on level 5, and the hold goes on.
C8_Witness ==
  /\ pc = "frame"
  /\ key = ord("6")
  /\ current_level = 5
  /\ pose_correct
  /\ frame.is_correct
  /\ pose_hold_time > 0
  /\ accuracy_history[5] # <<>>

\* C9: whatever the state, 'r' sets the current level to 1 and a key '1'..'5'
\* sets it to its digit, and both clear pose_correct and level_complete; the
\* next correct frame then starts a hold of its own.
C9_ManualOverrides ==
  [][/\ KeyStep /\ key' = ord("r")
          => current_level' = 1 /\ ~pose_correct' /\ ~level_complete'
     /\ KeyStep /\ key' \in {ord("1"), ord("2"), ord("3"), ord("4"), ord("5")}
          => /\ current_level' = key' - ord("0")
             /\ ~pose_correct'
             /\ ~level_complete'
     /\ FrameStep /\ key \in {ord("r"), ord("5")} /\ frame'.is_correct
          => frame'.hold_started /\ pose_hold_time' >= clock]_vars

\* '5' was pressed during a hold on level 1 that had not completed the level:
\* the current level is 5 and no hold is in progress.
C9_Witness ==
  /\ pc = "frame"
  /\ key = ord("5")
  /\ frame.level = 1
  /\ frame.is_correct
  /\ ~frame.completed
  /\ frame.hold_duration < 4
  /\ current_level = 5
  /\ ~pose_correct

\* C10: the first incorrect frame after a correct frame speaks the level's
\* hint; and when an incorrect frame speaks the hint after an earlier
\* incorrect frame spoke it, with no correct frame between the two, more than
\* 2.0 seconds lie between them.
C10_IncorrectFeedback ==
  [][FrameStep /\ ~frame'.is_correct
       => /\ frame.is_correct => Said(frame', "hint")
          /\ Said(frame', "hint") /\ ~frame.is_correct /\ frame.last_hint # 0
               => frame'.now - frame.last_hint > 4]_vars

\* Two incorrect frames, the first at time 0.5 s and the second 2.5 seconds
\* later, both spoke the hint.
C10_Witness ==
  /\ pc = "key"
  /\ iterations = 2
  /\ accuracy_history[1] = <<0, 0>>
  /\ ~frame.is_correct
  /\ Said(frame, "hint")
  /\ frame.now = 6
  /\ last_incorrect_feedback_time = 6

(***************************************************************************)
(* Properties of the smoothing, checked under SpecSmooth                   *)
(***************************************************************************)
\* C6: a frame appends min(100, 1.08 * accuracy) to the history of the level
\* it was scored on; the history keeps the 4 most recent samples in order of
\* arrival, a fifth evicting the oldest; the smoothed accuracy is the mean of
\* the samples then in the history; the other histories are untouched.  Four
\* samples of 80 smooth to 80, and a 0 appended to them gives 60.
C6_Smoothing ==
  [][FrameStep =>
       LET old == accuracy_history[current_level]
           new == accuracy_history'[current_level]
           scaled == (frame'.accuracy * 108) \div 100
           sample == IF scaled > 10000 THEN 10000 ELSE scaled
           n == Len(new)
           evicted == Len(old) + 1 - n
           total == (IF n >= 1 THEN new[1] ELSE 0) + (IF n >= 2 THEN new[2] ELSE 0)
                    + (IF n >= 3 THEN new[3] ELSE 0) + (IF n >= 4 THEN new[4] ELSE 0)
       IN  /\ n = IF Len(old) < 4 THEN Len(old) + 1 ELSE 4
           /\ new[n] = sample
           /\ \A i \in 1..(n - 1) : new[i] = old[i + evicted]
           /\ frame'.smoothed * n <= total
           /\ total < (frame'.smoothed + 1) * n
           /\ frame'.is_correct <=> total >= 5500 * n
           /\ \A l \in (1..5) \ {current_level} :
                accuracy_history'[l] = accuracy_history[l]
           /\ new = <<8000, 8000, 8000, 8000>> => frame'.smoothed = 8000
           /\ old = <<8000, 8000, 8000, 8000>> /\ frame'.accuracy = 0
                => new = <<8000, 8000, 8000, 0>> /\ frame'.smoothed = 6000]_vars

\* A fifth sample, 0, was appended to four samples of 80 and the smoothed
\* accuracy is 60.
C6_Witness ==
  /\ pc = "key"
  /\ iterations = 5
  /\ accuracy_history[frame.level] = <<8000, 8000, 8000, 0>>
  /\ frame.accuracy = 0
  /\ frame.smoothed = 6000

(***************************************************************************)
(* Further properties of the main loop, checked under Spec                 *)
(***************************************************************************)
\* C11: "Good job. Hold the pose." is spoken, and the hold start recorded as
\* a time read in the frame, exactly on the frames judged correct while
\* pose_correct was false; every other frame, the later correct frames of a
\* hold among them, speaks no such message and leaves the hold start as it
\* was.
C11_PoseAchievedFeedback ==
  [][FrameStep =>
       /\ Said(frame', "good_job") <=> (frame'.is_correct /\ ~pose_correct)
       /\ frame'.is_correct /\ ~pose_correct
            => /\ pose_hold_time' >= clock
               /\ pose_hold_time' <= clock'
               /\ pose_correct' \/ frame'.completed
       /\ ~(frame'.is_correct /\ ~pose_correct)
            => pose_hold_time' = pose_hold_time]_vars

\* A later correct frame of a hold: nothing was spoken in it and the hold
\* start is the one recorded before the frame.
C11_Witness ==
  /\ pc = "key"
  /\ frame.is_correct
  /\ pose_correct
  /\ ~frame.completed
  /\ frame.said = <<>>
  /\ pose_hold_time < frame.now
  /\ frame.hold_duration = frame.now - pose_hold_time

(***************************************************************************)
(* Properties of the speech channel, checked under SpecSpeech              *)
(***************************************************************************)
\* C12: the texts spoken are a prefix of the texts enqueued, in the same
\* order; while the process lives and the engine has not raised, every text
\* enqueued is spoken, being spoken or waiting in the queue in its order, so
\* none is dropped, duplicated or merged; and speak_text can be called
\* whatever the worker does and however long the queue is.
C12_SpeechOrder ==
  /\ Len(spoken) <= Len(enqueued)
  /\ spoken = SubSeq(enqueued, 1, Len(spoken))
  /\ speech_engine /\ ~engine_raised /\ pc # "exited"
       => enqueued = spoken
                     \o (IF speech_thread = "say" THEN <<worker_text>> ELSE <<>>)
                     \o SelectSeq(speech_queue, LAMBDA item : item # None)
  /\ pc = "loop" /\ iterations < MaxMessages => ENABLED SpeakText

\* Three texts were enqueued while the worker was speaking the first: the
\* other two wait in the queue in their order.
C12_Witness ==
  /\ pc = "loop"
  /\ speech_thread = "say"
  /\ enqueued = <<"good_job", "hint", "hint">>
  /\ worker_text = "good_job"
  /\ speech_queue = <<"hint", "hint">>
  /\ spoken = <<>>

\* C13: cleanup_speech puts one sentinel behind everything that waits in the
\* queue and nothing is enqueued after it; the join returns whether or not
\* the worker has ended, and the process then exits; a worker that takes the
\* sentinel has spoken every text enqueued, ends without speaking the
\* sentinel, and a worker that has ended speaks nothing more.
C13_Shutdown ==
  /\ [](/\ \A i \in 1..Len(speech_queue) :
             speech_queue[i] = None => i = Len(speech_queue)
        /\ \A i \in 1..Len(spoken) : spoken[i] # None
        /\ speech_thread = "ended" /\ worker_text = None
             => spoken = enqueued /\ speech_queue = <<>>
        /\ pc = "join" => ENABLED JoinEnded \/ ENABLED JoinTimeout
        /\ pc = "returned" => ENABLED Exit)
  /\ [][/\ pc = "loop" /\ pc' # "loop"
             => pc' = "join" /\ speech_queue' = Append(speech_queue, None)
        /\ pc # "loop"
             => /\ enqueued' = enqueued
                /\ \/ speech_queue' = speech_queue
                   \/ /\ speech_queue # <<>>
                      /\ speech_queue' = Tail(speech_queue)
        /\ speech_thread = "ended"
             => speech_thread' = "ended" /\ spoken' = spoken]_vars

\* The worker spoke three texts, took the sentinel and ended, and
\* cleanup_speech returned.
C13_Witness ==
  /\ pc = "returned"
  /\ speech_thread = "ended"
  /\ worker_text = None
  /\ Len(enqueued) = 3
  /\ spoken = enqueued
  /\ speech_queue = <<>>

\* C20: once the engine has raised, the worker has ended and stays ended;
\* the main thread can still call speak_text, which puts the text on the
\* queue; and nothing is spoken and nothing printed from then on, so the
\* texts in the queue stay there.
C20_EngineRaises ==
  /\ [](/\ engine_raised => speech_thread = "ended"
        /\ engine_raised => speech_engine /\ printed = <<>>
        /\ engine_raised /\ pc = "loop" /\ iterations < MaxMessages
             => ENABLED SpeakText)
  /\ [][engine_raised
          => /\ spoken' = spoken
             /\ printed' = printed
             /\ speech_thread' = "ended"
             /\ iterations' # iterations
                  => /\ Len(speech_queue') = Len(speech_queue) + 1
                     /\ SubSeq(speech_queue', 1, Len(speech_queue)) = speech_queue
                     /\ enqueued' # enqueued
             /\ iterations' = iterations /\ pc' = pc
                  => speech_queue' = speech_queue]_vars

\* The engine raised on the first text; the two other texts enqueued are
\* still in the queue, followed by the sentinel, unspoken and unprinted, and
\* the process has exited.
C20_Witness ==
  /\ engine_raised
  /\ speech_thread = "ended"
  /\ worker_text = "good_job"
  /\ enqueued = <<"good_job", "hint", "good_job">>
  /\ speech_queue = <<"hint", "good_job", None>>
  /\ Len(spoken) <= 1
  /\ printed = <<>>
  /\ pc = "exited"

(***************************************************************************)
(* Further properties of the smoothing, checked under SpecSmooth           *)
(***************************************************************************)
\* C14: a frame without landmarks has accuracy 0, appends a sample of 0 to
\* the history of the current level, and the loop goes on to read the key;
\* the mean of that history after the frame is not higher than its mean
\* before the frame, and so the smoothed accuracy is not higher than the one
\* the previous frame on that level computed.
C14_NoLandmarkFrame ==
  [][FrameStep /\ ~frame'.detected =>
       LET old == accuracy_history[current_level]
           new == accuracy_history'[current_level]
       IN  /\ frame'.accuracy = 0
           /\ frame'.adjusted = 0
           /\ pc' = "key"
           /\ Len(new) = IF Len(old) < 4 THEN Len(old) + 1 ELSE 4
           /\ new[Len(new)] = 0
           /\ Sum(new) <= Sum(old)
           /\ old # <<>> => Sum(new) * Len(old) <= Sum(old) * Len(new)
           /\ frame'.smoothed * Len(new) <= Sum(new)
           /\ frame.level = current_level
                => frame'.smoothed <= frame.smoothed]_vars

\* A frame without landmarks came after four frames of accuracy 100: the
\* sample of 0 took the place of the oldest sample and the smoothed accuracy
\* fell from 100 to 75.
C14_Witness ==
  /\ pc = "key"
  /\ iterations = 5
  /\ ~frame.detected
  /\ frame.accuracy = 0
  /\ accuracy_history[frame.level] = <<10000, 10000, 10000, 0>>
  /\ frame.smoothed = 7500
  /\ frame.is_correct

(***************************************************************************)
(* Further properties of check_pose_accuracy, checked under SpecScore      *)
(***************************************************************************)
\* C15: a call on level 1 with all 33 landmarks, the ankles together, the
\* shoulders level, and the angle at each elbow between shoulder and wrist
\* 170 degrees, the two arms alike, returns an accuracy of 90 or more.
C15_IdealMountain ==
  LET lm == results.landmark
      left_shoulder == find_point(lm, 11)
      right_shoulder == find_point(lm, 12)
      left_elbow == find_point(lm, 13)
      right_elbow == find_point(lm, 14)
      left_wrist == find_point(lm, 15)
      right_wrist == find_point(lm, 16)
  IN  /\ pc = "return"
      /\ pose_level = 1
      /\ results.detected
      /\ Len(lm) = 33
      /\ find_point(lm, 27) = find_point(lm, 28)
      /\ left_shoulder[2] = right_shoulder[2]
      /\ angle_calc(left_shoulder, left_elbow, left_wrist) = 170
      /\ angle_calc(right_shoulder, right_elbow, right_wrist) = 170
      /\ left_elbow[2] = right_elbow[2]
      /\ left_wrist[2] = right_wrist[2]
      => ret[2] >= 9000

(***************************************************************************)
(* Further properties of the main loop, checked under Spec                 *)
(***************************************************************************)
\* C16: in every state the main loop reaches, through frames, level
\* completions, resets, jumps and debug toggles, the current level is one
\* integer from 1 to 5.
C16_LevelInRange ==
  /\ current_level \in 1..5
  /\ frame.level \in 0..5
  /\ pc = "key" => frame.level \in 1..5

\* Level 5 was completed, the level wrapped to 1, and the debug toggle was
\* pressed after it.
C16_Witness ==
  /\ pc = "frame"
  /\ key = ord("d")
  /\ DEBUG_METRICS
  /\ frame.completed
  /\ frame.level = 5
  /\ current_level = 1

\* C17: a frame changes only the history of the level it was scored on,
\* also when it completes the level or wraps to level 1; no key changes any
\* history; and no history ever gets shorter, so the samples of an earlier
\* visit to a level still count when the level is current again.
C17_HistoriesKept ==
  [][/\ FrameStep
          => /\ \A l \in (1..5) \ {current_level} :
                  accuracy_history'[l] = accuracy_history[l]
             /\ accuracy_history'[current_level] # <<>>
     /\ KeyStep => accuracy_history' = accuracy_history
     /\ \A l \in 1..5 :
          /\ Len(accuracy_history'[l]) >= Len(accuracy_history[l])
          /\ Len(accuracy_history'[l]) >= 2
               => accuracy_history'[l][Len(accuracy_history'[l]) - 1]
                    = accuracy_history[l][Len(accuracy_history[l])
                        - (IF accuracy_history'[l] = accuracy_history[l]
                             THEN 1 ELSE 0)]]_vars

\* Level 1 was left by '5' after one frame and entered again by 'r' after a
\* frame on level 5: the second frame on level 1 is smoothed with the sample
\* of the first.
C17_Witness ==
  /\ pc = "key"
  /\ iterations = 3
  /\ key = ord("r")
  /\ frame.level = 1
  /\ Len(accuracy_history[1]) = 2
  /\ Len(accuracy_history[5]) = 1
  /\ accuracy_history[1][1] # accuracy_history[1][2]
  /\ frame.smoothed # frame.adjusted


\* The landmark indices a level's branch of check_pose_accuracy looks up,
\* those of the torso measurement included.
pose_indices(level) ==
  {11, 12, 23, 24}
  \cup CASE level = 1 -> {27, 28, 15, 16, 13, 14}
         [] level = 2 -> {23, 24, 27, 28, 25, 26}
         [] level = 3 -> {23, 24, 25, 26, 27, 28, 15, 16, 11, 12}
         [] level = 4 -> {0, 23, 24, 25, 26}
         [] level = 5 -> {23, 24, 0, 11, 12, 25, 26}
         [] OTHER -> {}

\* C18: a landmark list that is present but holds none of the indices the
\* level's pose uses, so that every lookup yields (0, 0), is scored below the
\* threshold of 55 on every level 1..5 and is not judged a correct pose.
C18_ShortListBelowThreshold ==
  /\ pc = "return"
  /\ results.detected
  /\ pose_level \in 1..5
  /\ \A i \in pose_indices(pose_level) : i >= Len(results.landmark)
  => /\ ret[2] < ACCURACY_THRESHOLD
     /\ ~ret[1]


(***************************************************************************)
(* Two frames of accuracy 0 in a row, checked under SpecSmooth             *)
(***************************************************************************)
\* C19: when a frame of raw accuracy 0 follows a frame of raw accuracy 0 that
\* was processed on the same level, then whatever the history of the level
\* held, the smoothed accuracy of the second frame is at most 50 and so below
\* 55, the frame is judged incorrect, pose_correct is false after it and the
\* level is unchanged.
C19_TwoZeroFrames ==
  [][/\ FrameStep
     /\ frame.level = current_level
     /\ frame.accuracy = 0
     /\ frame'.accuracy = 0
     => /\ frame'.level = current_level
        /\ 2 * frame'.smoothed <= 10000
        /\ frame'.smoothed < ACCURACY_THRESHOLD
        /\ ~frame'.is_correct
        /\ ~pose_correct'
        /\ current_level' = current_level]_vars

\* Three frames of accuracy 100 started a hold, a first frame of accuracy 0
\* left the smoothed accuracy at 75, and the second one brought it to 50 and
\* ended the hold.
C19_Witness ==
  /\ pc = "key"
  /\ iterations = 5
  /\ frame.accuracy = 0
  /\ accuracy_history[frame.level] = <<10000, 10000, 0, 0>>
  /\ frame.smoothed = 5000
  /\ ~frame.is_correct
  /\ ~pose_correct

============================================================================
